---- MODULE Spec2Model ----
(***************************************************************************)
(* Model of the two traffic tools of etalazz/vsa:                          *)
(*   scripts/traffic_report.py     (latest_snapshot, load_data, to_date,   *)
(*                                  compute, render_md, main)              *)
(*   scripts/summarize_traffic.py  (find_latest_snapshot,                  *)
(*                                  summarize_metrics, main)               *)
(*                                                                         *)
(* Python strings that the code compares, sorts or splits are sequences of *)
(* character codes, so that sorted(), max-by-key and str.split("T") are    *)
(* computed rather than assumed.  Strings that are only passed around      *)
(* (dictionary keys, tags, messages) are TLA+ strings.  A Python float is  *)
(* an exact fraction num/den in lowest terms; this is exact for the        *)
(* comparisons of the code as long as the counts stay below 2^53.          *)
(***************************************************************************)
EXTENDS Integers, Sequences, FiniteSets, TLC

(***************************************************************************)
(* Bounds of the model.                                                    *)
(***************************************************************************)
\* per-day counts range over 0..MaxCount (plus the values of the spec's examples)
MaxCount == 6
\* per-day unique counts range over 0..MaxUniq (plus the value of the spec's examples)
MaxUniq == 1
\* snapshot totals range over 0..MaxTotal
MaxTotal == 2
\* the per-day lists of a snapshot hold at most MaxLen entries
MaxLen == 2

(***************************************************************************)
(* Strings as sequences of character codes.                                *)
(***************************************************************************)
\* "T", the separator of to_date
CharT == 84
\* ".json", the suffix of the glob pattern "*.json"
JsonSuffix == <<46, 106, 115, 111, 110>>
\* "2025-10-24.json"
Name24 == <<50, 48, 50, 53, 45, 49, 48, 45, 50, 52, 46, 106, 115, 111, 110>>
\* "2025-10-25.json"
Name25 == <<50, 48, 50, 53, 45, 49, 48, 45, 50, 53, 46, 106, 115, 111, 110>>
\* "REPORT.md"
ReportName == <<82, 69, 80, 79, 82, 84, 46, 109, 100>>
\* "2025-10-24T06:00:00Z"
Ts24 == <<50, 48, 50, 53, 45, 49, 48, 45, 50, 52, 84, 48, 54, 58, 48, 48, 58, 48, 48, 90>>
\* "2025-10-25T06:00:00Z"
Ts25 == <<50, 48, 50, 53, 45, 49, 48, 45, 50, 53, 84, 48, 54, 58, 48, 48, 58, 48, 48, 90>>
\* "garbage", a collected_at that is no timestamp
TsGarbage == <<103, 97, 114, 98, 97, 103, 101>>
\* "2025-10-24T00:00:00Z"
Day24 == <<50, 48, 50, 53, 45, 49, 48, 45, 50, 52, 84, 48, 48, 58, 48, 48, 58, 48, 48, 90>>
\* "2025-10-25T00:00:00Z"
Day25 == <<50, 48, 50, 53, 45, 49, 48, 45, 50, 53, 84, 48, 48, 58, 48, 48, 58, 48, 48, 90>>
\* "2025-10-25T12:00:00Z", a second timestamp of the same calendar date
Day25Noon == <<50, 48, 50, 53, 45, 49, 48, 45, 50, 53, 84, 49, 50, 58, 48, 48, 58, 48, 48, 90>>
\* "2025-10-24"
Date24 == <<50, 48, 50, 53, 45, 49, 48, 45, 50, 52>>
\* "2025-10-25"
Date25 == <<50, 48, 50, 53, 45, 49, 48, 45, 50, 53>>

\* Python's a < b on str: lexicographic by code point, a proper prefix is less.
RECURSIVE StrLess(_, _)
StrLess(a, b) ==
    IF b = <<>> THEN FALSE
    ELSE IF a = <<>> THEN TRUE
    ELSE IF Head(a) # Head(b) THEN Head(a) < Head(b)
    ELSE StrLess(Tail(a), Tail(b))

\* the pattern "*.json": the name ends with ".json"
MatchesJson(name) ==
    /\ Len(name) >= Len(JsonSuffix)
    /\ SubSeq(name, Len(name) - Len(JsonSuffix) + 1, Len(name)) = JsonSuffix

\* list.sort / sorted on a list of <<key, item>> pairs: ascending by key and
\* stable (items of equal key keep their order), as Python guarantees.
RECURSIVE InsertStable(_, _)
InsertStable(s, x) ==
    IF s = <<>> THEN <<x>>
    ELSE IF StrLess(x[1], Head(s)[1]) THEN <<x>> \o s
    ELSE <<Head(s)>> \o InsertStable(Tail(s), x)

RECURSIVE StableSort(_)
StableSort(s) ==
    IF s = <<>> THEN <<>>
    ELSE InsertStable(StableSort(SubSeq(s, 1, Len(s) - 1)), s[Len(s)])

\* some enumeration of a set: the order in which glob or dict.keys() hands
\* out its elements before they are sorted
RECURSIVE SeqOf(_)
SeqOf(S) ==
    IF S = {} THEN <<>>
    ELSE LET x == CHOOSE y \in S : TRUE IN <<x>> \o SeqOf(S \ {x})

\* sorted(xs) for a collection of strings
Sorted(S) ==
    LET pairs == SeqOf({<<x, x>> : x \in S})
        out == StableSort(pairs)
    IN [i \in 1..Len(out) |-> out[i][2]]

(***************************************************************************)
(* JSON objects are functions from keys to values; dict.get with a default.*)
(***************************************************************************)
EmptyObj == [k \in {} |-> 0]

Get(obj, key, default) == IF key \in DOMAIN obj THEN obj[key] ELSE default

\* x or 0 on an int
OrZero(x) == IF x # 0 THEN x ELSE 0

(***************************************************************************)
(* Floats: exact fractions, and the ZeroDivisionError of a / 0.            *)
(***************************************************************************)
RECURSIVE GCD(_, _)
GCD(a, b) == IF b = 0 THEN a ELSE GCD(b, a % b)

Zero == [exc |-> FALSE, num |-> 0, den |-> 1]

ZeroDivisionError == [exc |-> TRUE, num |-> 0, den |-> 1]

\* a / b
TrueDiv(a, b) ==
    IF b = 0 THEN ZeroDivisionError
    ELSE LET g == GCD(a, b) IN [exc |-> FALSE, num |-> a \div g, den |-> b \div g]

\* (a / b) if g else 0
DivIf(g, a, b) == IF g # 0 THEN TrueDiv(a, b) ELSE Zero

\* the thresholds of the spike predicates: 5, 3 and the float literal 0.20
ViewsPerVisitorLimit == 5
ClonesPerClonerLimit == 3
CloneToViewLimit == [exc |-> FALSE, num |-> 1, den |-> 5]

IntLimit(n) == [exc |-> FALSE, num |-> n, den |-> 1]

\* AndGreater with >= for >
AndGreaterOrEqual(g, a, b, t) ==
    IF g # 0
    THEN LET q == TrueDiv(a, b)
         IN [fires |-> ~q.exc /\ q.num * t.den >= t.num * q.den, exc |-> q.exc]
    ELSE [fires |-> FALSE, exc |-> FALSE]

\* g and (a / b) > t: whether it is true, and whether evaluating it raised
AndGreater(g, a, b, t) ==
    IF g # 0
    THEN LET q == TrueDiv(a, b)
         IN [fires |-> ~q.exc /\ q.num * t.den > t.num * q.den, exc |-> q.exc]
    ELSE [fires |-> FALSE, exc |-> FALSE]

(***************************************************************************)
(* traffic_report.py: to_date and compute                                  *)
(***************************************************************************)
\* to_date that keeps the whole timestamp
to_date_whole(ts) == ts

\* ts.split("T")[0]
RECURSIVE to_date(_)
to_date(ts) ==
    IF ts = <<>> \/ Head(ts) = CharT THEN <<>>
    ELSE <<Head(ts)>> \o to_date(Tail(ts))

\* the default_factory of series
DefaultPoint == [views |-> 0, v_uniques |-> 0, clones |-> 0, c_uniques |-> 0]

\* series[day]: a missing key is created with the default point
Touch(series, day) ==
    IF day \in DOMAIN series THEN series ELSE (day :> DefaultPoint) @@ series

\* for p in views.get("views", []) or []: ...
RECURSIVE ViewsLoop(_, _)
ViewsLoop(series, list) ==
    IF list = <<>> THEN series
    ELSE LET p == Head(list)
             day == to_date(Get(p, "timestamp", <<>>))
             s1 == Touch(series, day)
         IN ViewsLoop([s1 EXCEPT ![day].views = Get(p, "count", 0),
                                 ![day].v_uniques = Get(p, "uniques", 0)],
                      Tail(list))

\* for p in clones.get("clones", []) or []: ...
RECURSIVE ClonesLoop(_, _)
ClonesLoop(series, list) ==
    IF list = <<>> THEN series
    ELSE LET p == Head(list)
             day == to_date(Get(p, "timestamp", <<>>))
             s1 == Touch(series, day)
         IN ClonesLoop([s1 EXCEPT ![day].clones = Get(p, "count", 0),
                                  ![day].c_uniques = Get(p, "uniques", 0)],
                       Tail(list))

\* sum(series[d][metric] for d in days)
RECURSIVE SumOver(_, _, _)
SumOver(series, days, metric) ==
    IF days = <<>> THEN 0
    ELSE series[Head(days)][metric] + SumOver(series, Tail(days), metric)

\* (sum(...) / len(days)) if days else 0
DailyAvg(series, days, metric) ==
    DivIf(Len(days), SumOver(series, days, metric), Len(days))

\* ", ".join(flags), as the sequence of its pieces
RECURSIVE Join(_, _)
Join(sep, flags) ==
    IF Len(flags) <= 1 THEN flags
    ELSE <<Head(flags), sep>> \o Join(sep, Tail(flags))

\* the three predicates of one day
ViewsPerVisitorSpike(v, vu) ==
    AndGreater(vu, v, vu, IntLimit(ViewsPerVisitorLimit))

ClonesPerClonerSpike(c, cu) ==
    AndGreater(cu, c, cu, IntLimit(ClonesPerClonerLimit))

\* CloneToViewSpike guarded by the clones instead of the views
CloneToViewSpikeByClones(c, v) ==
    AndGreater(c, c, v, CloneToViewLimit)

CloneToViewSpike(c, v) ==
    AndGreater(v, c, v, CloneToViewLimit)

\* the flags list of one day
DayFlags(v, vu, c, cu) ==
    (IF ViewsPerVisitorSpike(v, vu).fires THEN <<"views/visitor>5">> ELSE <<>>)
    \o (IF ClonesPerClonerSpike(c, cu).fires THEN <<"clones/unique_cloner>3">> ELSE <<>>)
    \o (IF CloneToViewSpike(c, v).fires THEN <<"clones/views>20%">> ELSE <<>>)

\* whether the predicates of one day raise
DayRaises(v, vu, c, cu) ==
    \/ ViewsPerVisitorSpike(v, vu).exc
    \/ ClonesPerClonerSpike(c, cu).exc
    \/ CloneToViewSpike(c, v).exc

\* SpikeLoop without "if flags:": an entry for every day
RECURSIVE SpikeLoopEveryDay(_, _)
SpikeLoopEveryDay(series, days) ==
    IF days = <<>> THEN [spikes |-> <<>>, exc |-> FALSE]
    ELSE LET d_ == Head(days)
             v == series[d_].views
             vu == OrZero(series[d_].v_uniques)
             c == series[d_].clones
             cu == OrZero(series[d_].c_uniques)
             flags == DayFlags(v, vu, c, cu)
             rest == SpikeLoopEveryDay(series, Tail(days))
             entry == [date |-> d_, flags |-> Join(", ", flags), views |-> v,
                       uniques |-> vu, clones |-> c, unique_cloners |-> cu]
         IN [spikes |-> <<entry>> \o rest.spikes,
             exc |-> DayRaises(v, vu, c, cu) \/ rest.exc]

\* for d_ in days: ... spikes.append({...})
RECURSIVE SpikeLoop(_, _)
SpikeLoop(series, days) ==
    IF days = <<>> THEN [spikes |-> <<>>, exc |-> FALSE]
    ELSE LET d_ == Head(days)
             v == series[d_].views
             vu == OrZero(series[d_].v_uniques)
             c == series[d_].clones
             cu == OrZero(series[d_].c_uniques)
             flags == DayFlags(v, vu, c, cu)
             rest == SpikeLoop(series, Tail(days))
             entry == [date |-> d_, flags |-> Join(", ", flags), views |-> v,
                       uniques |-> vu, clones |-> c, unique_cloners |-> cu]
         IN [spikes |-> (IF flags # <<>> THEN <<entry>> ELSE <<>>) \o rest.spikes,
             exc |-> DayRaises(v, vu, c, cu) \/ rest.exc]

\* Totals with c_unique read from the "count" key
TotalsSameKey(views, clones) ==
    [v_total |-> Get(views, "count", 0),
     v_unique |-> Get(views, "uniques", 0),
     c_total |-> Get(clones, "count", 0),
     c_unique |-> Get(clones, "count", 0)]

\* the four totals
Totals(views, clones) ==
    [v_total |-> Get(views, "count", 0),
     v_unique |-> Get(views, "uniques", 0),
     c_total |-> Get(clones, "count", 0),
     c_unique |-> Get(clones, "uniques", 0)]

\* the daily series
BuildSeries(views, clones) ==
    ClonesLoop(ViewsLoop(EmptyObj, Get(views, "views", <<>>)),
               Get(clones, "clones", <<>>))

\* Ratios with clone_to_view guarded by the clones instead of the views
RatiosByClones(t) ==
    [views_per_visitor |-> DivIf(t.v_unique, t.v_total, t.v_unique),
     clone_to_view |-> DivIf(t.c_total, t.c_total, t.v_total),
     unique_cloner_to_visitor |-> DivIf(t.v_unique, t.c_unique, t.v_unique)]

\* the three ratios of the totals
Ratios(t) ==
    [views_per_visitor |-> DivIf(t.v_unique, t.v_total, t.v_unique),
     clone_to_view |-> DivIf(t.v_total, t.c_total, t.v_total),
     unique_cloner_to_visitor |-> DivIf(t.v_unique, t.c_unique, t.v_unique)]

\* compute(d): the returned dictionary; exc says that the call raised
\* ZeroDivisionError instead of returning
compute(d) ==
    LET views == Get(d, "views", EmptyObj)
        clones == Get(d, "clones", EmptyObj)
        t == Totals(views, clones)
        series == BuildSeries(views, clones)
        days == Sorted(DOMAIN series)
        r == Ratios(t)
        avg_views == DailyAvg(series, days, "views")
        avg_clones == DailyAvg(series, days, "clones")
        sp == SpikeLoop(series, days)
    IN [v_total |-> t.v_total,
        v_unique |-> t.v_unique,
        c_total |-> t.c_total,
        c_unique |-> t.c_unique,
        views_per_visitor |-> r.views_per_visitor,
        clone_to_view |-> r.clone_to_view,
        unique_cloner_to_visitor |-> r.unique_cloner_to_visitor,
        daily_avg_views |-> avg_views,
        daily_avg_clones |-> avg_clones,
        days |-> days,
        series |-> series,
        spikes |-> sp.spikes,
        referrers |-> Get(d, "referrers", <<>>),
        paths |-> Get(d, "paths", <<>>),
        collected_at |-> [present |-> "collected_at" \in DOMAIN d,
                          value |-> Get(d, "collected_at", <<>>)],
        repo |-> Get(d, "repo", EmptyObj),
        exc |-> \/ r.views_per_visitor.exc \/ r.clone_to_view.exc
                \/ r.unique_cloner_to_visitor.exc
                \/ avg_views.exc \/ avg_clones.exc \/ sp.exc]


(***************************************************************************)
(* traffic_report.py: render_md.  The document is kept as its parts; the   *)
(* numbers are the values handed to the format specifications.             *)
(***************************************************************************)
\* one line of the "Spike flags" section per entry of spikes
SpikeLines(spikes) ==
    IF spikes # <<>>
    THEN [i \in 1..Len(spikes) |->
            [text |-> "spike", date |-> spikes[i].date, flags |-> spikes[i].flags]]
    ELSE <<[text |-> "- None detected by current thresholds", date |-> <<>>,
            flags |-> <<>>]>>

\* one row of the "Daily breakdown" table per entry of days
TableRows(stats) ==
    [i \in 1..Len(stats.days) |->
        LET d_ == stats.days[i]
            v == stats.series[d_].views
            vu == OrZero(stats.series[d_].v_uniques)
            c == stats.series[d_].clones
            cu == OrZero(stats.series[d_].c_uniques)
        IN [date |-> d_, views |-> v, uniques |-> vu, clones |-> c,
            unique_cloners |-> cu,
            vpv |-> DivIf(vu, v, vu), cpu |-> DivIf(cu, c, cu), cv |-> DivIf(v, c, v)]]

render_md(stats) ==
    [owner |-> Get(stats.repo, "owner", "?"),
     repo |-> Get(stats.repo, "repo", "?"),
     collected_at |-> stats.collected_at,
     summary |-> <<stats.v_total, stats.v_unique, stats.c_total, stats.c_unique>>,
     ratios |-> <<stats.views_per_visitor, stats.clone_to_view,
                  stats.unique_cloner_to_visitor, stats.daily_avg_views,
                  stats.daily_avg_clones>>,
     spike_lines |-> SpikeLines(stats.spikes),
     rows |-> TableRows(stats)]

(***************************************************************************)
(* The directory metrics/traffic: which names exist and what they hold.    *)
(***************************************************************************)
FileNames == {Name24, Name25, ReportName}

Absent == [kind |-> "absent", data |-> EmptyObj]
\* a file that open() refuses
Unreadable == [kind |-> "unreadable", data |-> EmptyObj]
\* a file that json.load() rejects
Malformed == [kind |-> "malformed", data |-> EmptyObj]
\* a file holding a JSON object
Json(obj) == [kind |-> "json", data |-> obj]
\* a REPORT.md left by an earlier run
OldReport == [kind |-> "text", data |-> EmptyObj]
\* the REPORT.md that main writes
Report(md) == [kind |-> "report", data |-> md]

\* glob("*.json") of the directory (empty when the directory is missing)
GlobJson(exists, fs) ==
    IF exists
    THEN {n \in FileNames : fs[n].kind # "absent" /\ MatchesJson(n)}
    ELSE {}

(***************************************************************************)
(* traffic_report.py: latest_snapshot                                      *)
(***************************************************************************)
\* key(f): collected_at of the parsed file, "" without the field, and ""
\* when opening or parsing raises
SnapshotKey(content) ==
    IF content.kind = "json" THEN Get(content.data, "collected_at", <<>>) ELSE <<>>

\* the files whose exception key(f) swallows
KeySwallows(exists, fs) ==
    {n \in GlobJson(exists, fs) : fs[n].kind # "json"}

\* LastByKey that returns files[0]
FirstByKey(files, fs) ==
    LET keyed == StableSort([i \in 1..Len(files) |-> <<SnapshotKey(fs[files[i]]), files[i]>>])
    IN keyed[1][2]

\* files.sort(key=key); return files[-1]
LastByKey(files, fs) ==
    LET keyed == StableSort([i \in 1..Len(files) |-> <<SnapshotKey(fs[files[i]]), files[i]>>])
    IN keyed[Len(keyed)][2]

\* latest_snapshot(): raised says that it left by SystemExit
latest_snapshot(exists, fs) ==
    LET files == Sorted(GlobJson(exists, fs))
    IN IF files = <<>>
       THEN [raised |-> TRUE, file |-> <<>>]
       ELSE [raised |-> FALSE, file |-> LastByKey(files, fs)]

(***************************************************************************)
(* summarize_traffic.py: find_latest_snapshot and summarize_metrics        *)
(***************************************************************************)
\* sorted(json_files)[-1]
LastByName(names) ==
    LET files == Sorted(names) IN files[Len(files)]

\* find_latest_snapshot(): error names the message printed before sys.exit(1)
find_latest_snapshot(exists, fs) ==
    IF ~exists
    THEN [error |-> "Error: Traffic metrics directory not found", file |-> <<>>]
    ELSE IF GlobJson(exists, fs) = {}
    THEN [error |-> "Error: No traffic snapshot files found", file |-> <<>>]
    ELSE [error |-> "", file |-> LastByName(GlobJson(exists, fs))]

\* the number of referrers and paths shown
TopN == 10

Line(text, ints, floats) == [text |-> text, ints |-> ints, floats |-> floats]

\* the VIEWS or CLONES block: totals, and the daily average over the entries
\* of the per-day list when there are any
MetricBlock(data, key, title) ==
    LET m == Get(data, key, EmptyObj)
    IN IF DOMAIN m # {}
       THEN LET total == Get(m, "count", 0)
                unique == Get(m, "uniques", 0)
                num_days == Len(Get(m, key, <<>>))
            IN <<Line(title, <<total, unique>>, <<>>)>>
               \o (IF num_days > 0
                   THEN <<Line("Daily Average", <<>>,
                               <<TrueDiv(total, num_days), TrueDiv(unique, num_days)>>),
                          Line("Period", <<num_days>>, <<>>)>>
                   ELSE <<>>)
       ELSE <<Line("No data available", <<>>, <<>>)>>

\* the TOP REFERRERS or POPULAR PATHS block: the first ten entries in order
ListBlock(data, key, title) ==
    LET l == Get(data, key, <<>>)
        n == IF Len(l) < TopN THEN Len(l) ELSE TopN
    IN IF l # <<>>
       THEN <<Line(title, <<>>, <<>>)>>
            \o [i \in 1..n |-> Line("entry", <<i, Get(l[i], "count", 0),
                                               Get(l[i], "uniques", 0)>>, <<>>)]
       ELSE <<Line("No data available", <<>>, <<>>)>>

\* what summarize_metrics prints for a parsed snapshot
summarize_metrics(data) ==
    <<Line("GitHub Traffic Metrics Summary", <<>>, <<>>)>>
    \o MetricBlock(data, "views", "VIEWS")
    \o MetricBlock(data, "clones", "CLONES")
    \o ListBlock(data, "referrers", "TOP REFERRERS")
    \o ListBlock(data, "paths", "POPULAR PATHS")

(***************************************************************************)
(* The state of one run of one tool.                                       *)
(***************************************************************************)
VARIABLES
    tool,        \* "report" (traffic_report.py) or "summary" (summarize_traffic.py)
    help,        \* whether the summary tool was given -h
    dir_exists,  \* whether metrics/traffic exists
    files,       \* what each name of metrics/traffic holds
    pc,          \* the step the run is at
    selected,    \* the snapshot file chosen by the loader ("" before)
    swallowed,   \* the files whose open/parse exception key() has swallowed
    d,           \* <<the parsed snapshot>>, <<>> before it is loaded
    stats,       \* <<the result of compute>>, <<>> before
    md,          \* <<the rendered document>>, <<>> before
    out,         \* what was printed to standard output
    err,         \* what was printed to standard error
    exit_code    \* the exit status, once pc = "exited"

vars == <<tool, help, dir_exists, files, pc, selected, swallowed, d, stats, md,
          out, err, exit_code>>

(***************************************************************************)
(* The snapshots and directories the runs start from.                      *)
(***************************************************************************)
CountVals == 0..MaxCount \cup {25, 50}
UniqVals == 0..MaxUniq \cup {5}
TotalVals == 0..MaxTotal
Stamps == {Day24, Day25, Day25Noon}

RepoObj == [owner |-> "etalazz", repo |-> "vsa"]
Referrer1 == [referrer |-> "github.com", count |-> 3, uniques |-> 2]
Path1 == [path |-> "/etalazz/vsa", count |-> 4, uniques |-> 2]

Point(ts, count, uniques) == [timestamp |-> ts, count |-> count, uniques |-> uniques]

\* the restriction of an object to some of its keys: the other fields are missing
Only(obj, keys) == [k \in keys |-> obj[k]]

\* a snapshot that holds little more than its collected_at, if any
SmallSnapshots ==
    {[views |-> [count |-> 1, uniques |-> 1, views |-> <<>>]]}
    \cup {[collected_at |-> ca, views |-> [count |-> 1, uniques |-> 1, views |-> <<>>]] :
            ca \in {Ts24, Ts25, TsGarbage}}

\* snapshots over all totals
TotalSnapshots ==
    {[collected_at |-> Ts25, repo |-> RepoObj,
      views |-> [count |-> vt, uniques |-> vu, views |-> <<Point(Day24, 2, 1)>>],
      clones |-> [count |-> ct, uniques |-> cu, clones |-> <<Point(Day25, 1, 1)>>],
      referrers |-> <<Referrer1>>, paths |-> <<Path1>>] :
        vt \in TotalVals, vu \in TotalVals, ct \in TotalVals, cu \in TotalVals}

\* snapshots over all subsets of the optional fields
FullSnapshot ==
    [collected_at |-> Ts25, repo |-> RepoObj,
     views |-> [count |-> 9, uniques |-> 4, views |-> <<Point(Day24, 9, 4)>>],
     clones |-> [count |-> 7, uniques |-> 2, clones |-> <<Point(Day25, 7, 2)>>],
     referrers |-> <<Referrer1>>, paths |-> <<Path1>>]

OptionalSnapshots ==
    {[k \in top \cup {"collected_at", "repo"} |->
        IF k = "views" THEN Only(FullSnapshot.views, vk)
        ELSE IF k = "clones" THEN Only(FullSnapshot.clones, ck)
        ELSE FullSnapshot[k]] :
        top \in SUBSET {"views", "clones", "referrers", "paths"},
        vk \in SUBSET {"count", "uniques", "views"},
        ck \in SUBSET {"count", "uniques", "clones"}}

\* snapshots over all counts of one day
SpikeSnapshots ==
    {[collected_at |-> Ts25, repo |-> RepoObj,
      views |-> [count |-> v, uniques |-> vu, views |-> <<Point(Day25, v, vu)>>],
      clones |-> [count |-> c, uniques |-> cu, clones |-> <<Point(Day25Noon, c, cu)>>]] :
        v \in CountVals, vu \in UniqVals, c \in CountVals, cu \in UniqVals}

\* the per-day lists of at most MaxLen entries; the i-th entry counts i+1
DayLists ==
    UNION {{[i \in 1..n |-> Point(ts[i], i + 1, i)] : ts \in [1..n -> Stamps]} :
            n \in 0..MaxLen}

\* the sum of a field over a per-day list
RECURSIVE ListSum(_, _)
ListSum(list, field) ==
    IF list = <<>> THEN 0 ELSE Head(list)[field] + ListSum(Tail(list), field)

\* snapshots over all per-day lists, the totals being the sums of the lists
DaySnapshots ==
    {[collected_at |-> Ts25, repo |-> RepoObj,
      views |-> [count |-> ListSum(vl, "count"), uniques |-> ListSum(vl, "uniques"),
                 views |-> vl],
      clones |-> [count |-> ListSum(cl, "count"), uniques |-> ListSum(cl, "uniques"),
                  clones |-> cl]] :
        vl \in DayLists, cl \in DayLists}

\* what a snapshot name of the directory can hold when the loader is exercised
LoaderContents ==
    {Absent, Unreadable, Malformed} \cup {Json(s) : s \in SmallSnapshots}

\* a directory with one snapshot, 2025-10-25.json
OneSnapshot(s) ==
    [n \in FileNames |-> IF n = Name25 THEN Json(s) ELSE Absent]

InitRun ==
    /\ pc = "start"
    /\ selected = <<>>
    /\ swallowed = {}
    /\ d = <<>>
    /\ stats = <<>>
    /\ md = <<>>
    /\ out = <<>>
    /\ err = <<>>
    /\ exit_code = 0

\* directories of up to two snapshot files of any kind, with or without an
\* earlier REPORT.md, and the missing directory; both tools
InitLoader ==
    /\ tool \in {"report", "summary"}
    /\ help \in (IF tool = "summary" THEN BOOLEAN ELSE {FALSE})
    /\ dir_exists \in BOOLEAN
    /\ files \in (IF dir_exists
                  THEN {[n \in FileNames |->
                            IF n = Name24 THEN a ELSE IF n = Name25 THEN b ELSE r] :
                          a \in LoaderContents, b \in LoaderContents,
                          r \in {Absent, OldReport}}
                  ELSE {[n \in FileNames |-> Absent]})

\* one snapshot file with a richer snapshot
InitSnapshot ==
    /\ help = FALSE
    /\ dir_exists = TRUE
    /\ \/ /\ tool = "report"
          /\ files \in {OneSnapshot(s) :
                          s \in TotalSnapshots \cup OptionalSnapshots \cup SpikeSnapshots}
       \/ /\ tool \in {"report", "summary"}
          /\ files \in {OneSnapshot(s) : s \in DaySnapshots}

Init == InitRun /\ (InitLoader \/ InitSnapshot)

(***************************************************************************)
(* The ways a run ends.                                                    *)
(***************************************************************************)
\* an exception nobody catches, and SystemExit(message): the interpreter
\* writes the traceback or the message to standard error and exits with 1
Uncaught(what) ==
    /\ err' = Append(err, what)
    /\ exit_code' = 1
    /\ pc' = "exited"
    /\ UNCHANGED out

\* print(message); sys.exit(1)
PrintAndExit(message) ==
    /\ out' = Append(out, Line(message, <<>>, <<>>))
    /\ exit_code' = 1
    /\ pc' = "exited"
    /\ UNCHANGED err

\* what opening and parsing a file raises, "" when it parses
LoadError(content) ==
    IF content.kind = "json" THEN ""
    ELSE IF content.kind = "malformed" THEN "Traceback: json.JSONDecodeError"
    ELSE "Traceback: OSError"

(***************************************************************************)
(* traffic_report.py: main                                                 *)
(***************************************************************************)
\* load_data: f = latest_snapshot()
ReportLatest ==
    /\ tool = "report"
    /\ pc = "start"
    /\ LET r == latest_snapshot(dir_exists, files)
       IN IF r.raised
          THEN /\ Uncaught("No snapshots found in metrics/traffic/")
               /\ UNCHANGED <<selected, swallowed>>
          ELSE /\ selected' = r.file
               /\ swallowed' = KeySwallows(dir_exists, files)
               /\ pc' = "load"
               /\ UNCHANGED <<out, err, exit_code>>
    /\ UNCHANGED <<tool, help, dir_exists, files, d, stats, md>>

\* load_data: open(f) and json.load(fh)
ReportLoad ==
    /\ tool = "report"
    /\ pc = "load"
    /\ IF LoadError(files[selected]) # ""
       THEN /\ Uncaught(LoadError(files[selected]))
            /\ UNCHANGED d
       ELSE /\ d' = <<files[selected].data>>
            /\ pc' = "compute"
            /\ UNCHANGED <<out, err, exit_code>>
    /\ UNCHANGED <<tool, help, dir_exists, files, selected, swallowed, stats, md>>

\* stats = compute(d)
ReportCompute ==
    /\ tool = "report"
    /\ pc = "compute"
    /\ LET s == compute(d[1])
       IN IF s.exc
          THEN /\ Uncaught("Traceback: ZeroDivisionError")
               /\ UNCHANGED stats
          ELSE /\ stats' = <<s>>
               /\ pc' = "render"
               /\ UNCHANGED <<out, err, exit_code>>
    /\ UNCHANGED <<tool, help, dir_exists, files, selected, swallowed, d, md>>

\* md = render_md(stats)
ReportRender ==
    /\ tool = "report"
    /\ pc = "render"
    /\ md' = <<render_md(stats[1])>>
    /\ pc' = "write"
    /\ UNCHANGED <<tool, help, dir_exists, files, selected, swallowed, d, stats,
                   out, err, exit_code>>

\* os.makedirs, open(REPORT_PATH, "w"), write, print
ReportWrite ==
    /\ tool = "report"
    /\ pc = "write"
    /\ dir_exists' = TRUE
    /\ files' = [files EXCEPT ![ReportName] = Report(md[1])]
    /\ out' = Append(out, Line("Wrote report to metrics/traffic/REPORT.md", <<>>, <<>>))
    /\ exit_code' = 0
    /\ pc' = "exited"
    /\ UNCHANGED <<tool, help, selected, swallowed, d, stats, md, err>>

(***************************************************************************)
(* summarize_traffic.py: main                                              *)
(***************************************************************************)
\* the help flag: print(__doc__); sys.exit(0)
SummaryArgs ==
    /\ tool = "summary"
    /\ pc = "start"
    /\ IF help
       THEN /\ out' = Append(out, Line("usage", <<>>, <<>>))
            /\ exit_code' = 0
            /\ pc' = "exited"
       ELSE /\ pc' = "find"
            /\ UNCHANGED <<out, exit_code>>
    /\ UNCHANGED <<tool, help, dir_exists, files, selected, swallowed, d, stats,
                   md, err>>

\* latest_snapshot = find_latest_snapshot(metrics_dir); print("Reading snapshot: ...")
SummaryFind ==
    /\ tool = "summary"
    /\ pc = "find"
    /\ LET r == find_latest_snapshot(dir_exists, files)
       IN IF r.error # ""
          THEN /\ PrintAndExit(r.error)
               /\ UNCHANGED selected
          ELSE /\ selected' = r.file
               /\ out' = Append(out, Line("Reading snapshot", <<>>, <<>>))
               /\ pc' = "summarize"
               /\ UNCHANGED <<err, exit_code>>
    /\ UNCHANGED <<tool, help, dir_exists, files, swallowed, d, stats, md>>

\* summarize_metrics(latest_snapshot)
SummarySummarize ==
    /\ tool = "summary"
    /\ pc = "summarize"
    /\ IF LoadError(files[selected]) # ""
       THEN /\ Uncaught(LoadError(files[selected]))
            /\ UNCHANGED d
       ELSE /\ d' = <<files[selected].data>>
            /\ out' = out \o summarize_metrics(files[selected].data)
            /\ exit_code' = 0
            /\ pc' = "exited"
            /\ UNCHANGED err
    /\ UNCHANGED <<tool, help, dir_exists, files, selected, swallowed, stats, md>>

Next ==
    \/ ReportLatest
    \/ ReportLoad
    \/ ReportCompute
    \/ ReportRender
    \/ ReportWrite
    \/ SummaryArgs
    \/ SummaryFind
    \/ SummarySummarize

Spec == Init /\ [][Next]_vars

(***************************************************************************)
(* What the properties below read off a run.                               *)
(***************************************************************************)
Computed == stats # <<>>

\* the calendar date of a timestamp of Stamps
DateOf(ts) == IF ts \in {Day25, Day25Noon} THEN Date25 ELSE Date24

\* the per-day list of the loaded snapshot under views.views or clones.clones
InputList(key) ==
    IF key \in DOMAIN d[1] /\ key \in DOMAIN d[1][key] THEN d[1][key][key] ELSE <<>>

InputDates(key) ==
    {DateOf(InputList(key)[i].timestamp) : i \in DOMAIN InputList(key)}

TrackedDates == InputDates("views") \cup InputDates("clones")

\* a total of the loaded snapshot, 0 when it is missing
InputTotal(key, field) ==
    IF key \in DOMAIN d[1] /\ field \in DOMAIN d[1][key] THEN d[1][key][field] ELSE 0

\* the count the snapshot gives for a date in one of its lists (the last entry
\* of that date), 0 when the list has no entry of that date
InputCount(key, date) ==
    LET l == InputList(key)
        at == {i \in DOMAIN l : DateOf(l[i].timestamp) = date}
    IN IF at = {} THEN 0
       ELSE l[CHOOSE i \in at : \A j \in at : j <= i].count

RECURSIVE SumCounts(_, _)
SumCounts(key, dates) ==
    IF dates = {} THEN 0
    ELSE LET x == CHOOSE y \in dates : TRUE
         IN InputCount(key, x) + SumCounts(key, dates \ {x})

\* the fraction f is the quotient a / b
IsQuotient(f, a, b) == ~f.exc /\ f.den > 0 /\ f.num * b = a * f.den

IsZero(f) == ~f.exc /\ f.num = 0

HasEntry(day) == \E j \in DOMAIN stats[1].spikes : stats[1].spikes[j].date = day

HasTag(day, tag) ==
    \E j \in DOMAIN stats[1].spikes :
        /\ stats[1].spikes[j].date = day
        /\ \E k \in DOMAIN stats[1].spikes[j].flags : stats[1].spikes[j].flags[k] = tag

FiresViewsPerVisitor(p) == p.v_uniques > 0 /\ p.views > 5 * p.v_uniques
FiresClonesPerCloner(p) == p.c_uniques > 0 /\ p.clones > 3 * p.c_uniques
FiresCloneToView(p) == p.views > 0 /\ 5 * p.clones > p.views

NoZeroDivision ==
    /\ \A i \in DOMAIN err : err[i] # "Traceback: ZeroDivisionError"
    /\ (tool = "report" /\ d # <<>> /\ pc # "compute") => Computed

\* C1: compute() puts an entry for a tracked date in spikes if and only if at
\* least one of the three predicates fires for that date's point; no entry
\* has an empty flag list, every entry is for a tracked date, and no date has
\* two entries.
C1_EntryIffSomePredicateFires ==
    Computed =>
        LET s == stats[1]
        IN /\ \A i \in DOMAIN s.days :
                HasEntry(s.days[i]) <=>
                    \/ FiresViewsPerVisitor(s.series[s.days[i]])
                    \/ FiresClonesPerCloner(s.series[s.days[i]])
                    \/ FiresCloneToView(s.series[s.days[i]])
           /\ \A j \in DOMAIN s.spikes :
                /\ s.spikes[j].flags # <<>>
                /\ \E i \in DOMAIN s.days : s.days[i] = s.spikes[j].date
           /\ \A j, k \in DOMAIN s.spikes :
                s.spikes[j].date = s.spikes[k].date => j = k

\* a run in which compute() returned with a flagged day and an unflagged day
C1_Witness ==
    /\ Computed
    /\ \E i, j \in DOMAIN stats[1].days :
        HasEntry(stats[1].days[i]) /\ ~HasEntry(stats[1].days[j])

\* C2: a spike predicate whose denominator is 0 never fires (views = 0: no
\* "clones/views>20%"; unique visitors = 0: no "views/visitor>5"; unique
\* cloners = 0: no "clones/unique_cloner>3"), and compute() never raises
\* ZeroDivisionError.
C2_ZeroDenominatorNeverFires ==
    /\ NoZeroDivision
    /\ Computed =>
        \A i \in DOMAIN stats[1].days :
            LET day == stats[1].days[i]
                p == stats[1].series[day]
            IN /\ p.views = 0 => ~HasTag(day, "clones/views>20%")
               /\ p.v_uniques = 0 => ~HasTag(day, "views/visitor>5")
               /\ p.c_uniques = 0 => ~HasTag(day, "clones/unique_cloner>3")

\* a run in which compute() returned for a day with clones but no views, no
\* unique visitors and no unique cloners
C2_Witness ==
    /\ Computed
    /\ \E i \in DOMAIN stats[1].days :
        LET p == stats[1].series[stats[1].days[i]]
        IN p.views = 0 /\ p.v_uniques = 0 /\ p.clones > 0 /\ p.c_uniques = 0

\* C3: the tags of a tracked date are exactly those of the predicates that
\* hold of its counts, each with a strict threshold: "views/visitor>5" iff
\* vu > 0 and v > 5*vu, "clones/unique_cloner>3" iff cu > 0 and c > 3*cu,
\* "clones/views>20%" iff v > 0 and 5*c > v.
C3_TagsAreExactlyThePredicates ==
    Computed =>
        \A i \in DOMAIN stats[1].days :
            LET day == stats[1].days[i]
                p == stats[1].series[day]
            IN /\ HasTag(day, "views/visitor>5") <=> FiresViewsPerVisitor(p)
               /\ HasTag(day, "clones/unique_cloner>3") <=> FiresClonesPerCloner(p)
               /\ HasTag(day, "clones/views>20%") <=> FiresCloneToView(p)

\* a run in which compute() returned for the day views=50, uniques=5 of the
\* spec, flagged "views/visitor>5", whose clones are exactly 3 per unique
\* cloner, not flagged
C3_Witness ==
    /\ Computed
    /\ \E i \in DOMAIN stats[1].days :
        LET day == stats[1].days[i]
            p == stats[1].series[day]
        IN /\ p.views = 50 /\ p.v_uniques = 5 /\ p.clones = 3 /\ p.c_uniques = 1
           /\ HasTag(day, "views/visitor>5")
           /\ ~HasTag(day, "clones/unique_cloner>3")

\* C4: the dates of days, and the rows of the Markdown table, are the union of
\* the calendar dates of views.views and clones.clones, each once, ascending;
\* a date of only one of the two lists has count and uniques 0 for the other.
C4_DaysAreTheUnionOfDates ==
    /\ Computed =>
        LET s == stats[1]
        IN /\ {s.days[i] : i \in DOMAIN s.days} = TrackedDates
           /\ DOMAIN s.series = TrackedDates
           /\ \A i, j \in DOMAIN s.days : i < j => StrLess(s.days[i], s.days[j])
           /\ \A i \in DOMAIN s.days :
                LET p == s.series[s.days[i]]
                IN /\ s.days[i] \notin InputDates("views") =>
                        p.views = 0 /\ p.v_uniques = 0
                   /\ s.days[i] \notin InputDates("clones") =>
                        p.clones = 0 /\ p.c_uniques = 0
                   /\ p.views = InputCount("views", s.days[i])
                   /\ p.clones = InputCount("clones", s.days[i])
    /\ md # <<>> =>
        /\ Len(md[1].rows) = Len(stats[1].days)
        /\ \A i \in DOMAIN md[1].rows :
            LET r == md[1].rows[i]
            IN /\ r.date = stats[1].days[i]
               /\ r.date \notin InputDates("views") => r.views = 0 /\ r.uniques = 0
               /\ r.date \notin InputDates("clones") =>
                    r.clones = 0 /\ r.unique_cloners = 0

\* a rendered report of a snapshot whose views list holds 2025-10-25 twice and
\* whose clones list holds 2025-10-24 after 2025-10-25: two rows, the first
\* one without views
C4_Witness ==
    /\ md # <<>>
    /\ Len(InputList("views")) = 2
    /\ InputDates("views") = {Date25}
    /\ Len(InputList("clones")) = 2
    /\ InputList("clones")[1].timestamp = Day25
    /\ InputList("clones")[2].timestamp = Day24
    /\ stats[1].days = <<Date24, Date25>>
    /\ md[1].rows[1].views = 0
    /\ md[1].rows[1].clones > 0

\* C5: the three ratios are functions of the snapshot's totals alone:
\* views_per_visitor = views.count / views.uniques, clone_to_view =
\* clones.count / views.count, unique_cloner_to_visitor = clones.uniques /
\* views.uniques, each 0 when its denominator is 0; computing them never
\* raises ZeroDivisionError.
C5_RatiosOfTotals ==
    /\ NoZeroDivision
    /\ Computed =>
        LET s == stats[1]
            vt == InputTotal("views", "count")
            vu == InputTotal("views", "uniques")
            ct == InputTotal("clones", "count")
            cu == InputTotal("clones", "uniques")
        IN /\ IF vu = 0 THEN IsZero(s.views_per_visitor)
              ELSE IsQuotient(s.views_per_visitor, vt, vu)
           /\ IF vt = 0 THEN IsZero(s.clone_to_view)
              ELSE IsQuotient(s.clone_to_view, ct, vt)
           /\ IF vu = 0 THEN IsZero(s.unique_cloner_to_visitor)
              ELSE IsQuotient(s.unique_cloner_to_visitor, cu, vu)

\* a run in which compute() returned for totals with no views and no unique
\* visitors but with clones and unique cloners
C5_Witness ==
    /\ Computed
    /\ InputTotal("views", "count") = 0
    /\ InputTotal("views", "uniques") = 0
    /\ InputTotal("clones", "count") > 0
    /\ InputTotal("clones", "uniques") > 0
    /\ IsZero(stats[1].clone_to_view)

\* the "Daily Average" line that summarize_metrics printed under a block title
SummaryAverages(title) ==
    {out[i].floats[1] : i \in {j \in DOMAIN out : /\ j > 1
                                                  /\ out[j].text = "Daily Average"
                                                  /\ out[j - 1].text = title}}

\* f is the mean of a metric over the distinct tracked days, 0 without any
IsDailyMean(f, key) ==
    IF TrackedDates = {} THEN IsZero(f)
    ELSE IsQuotient(f, SumCounts(key, TrackedDates), Cardinality(TrackedDates))

\* C6: each daily average, of compute() and of summarize_metrics(), is the sum
\* of the metric's per-day values divided by the number of distinct tracked
\* days, and is 0, not an error, when there are no tracked days.
C6_DailyAverageIsMeanOverTrackedDays ==
    /\ \A i \in DOMAIN err : err[i] # "Traceback: ZeroDivisionError"
    /\ Computed =>
        /\ IsDailyMean(stats[1].daily_avg_views, "views")
        /\ IsDailyMean(stats[1].daily_avg_clones, "clones")
    /\ (tool = "summary" /\ d # <<>>) =>
        /\ \A f \in SummaryAverages("VIEWS") : IsDailyMean(f, "views")
        /\ \A f \in SummaryAverages("CLONES") : IsDailyMean(f, "clones")

\* the same for compute() alone
C6_ComputeAverages ==
    /\ \A i \in DOMAIN err : err[i] # "Traceback: ZeroDivisionError"
    /\ Computed =>
        /\ IsDailyMean(stats[1].daily_avg_views, "views")
        /\ IsDailyMean(stats[1].daily_avg_clones, "clones")

\* the .json files of the directory
JsonNames == {n \in {Name24, Name25} : dir_exists /\ files[n].kind # "absent"}

StrLeq(a, b) == a = b \/ StrLess(a, b)

\* the collected_at string a file holds, "" when it does not parse or has none
Stamp(n) ==
    IF files[n].kind = "json" /\ "collected_at" \in DOMAIN files[n].data
    THEN files[n].data.collected_at
    ELSE <<>>

\* the files whose collected_at is a timestamp
Stamped == {n \in JsonNames : Stamp(n) \in {Ts24, Ts25}}

\* the last of a set of files by collected_at, the lexically last name among
\* those of the latest collected_at
Latest(S) ==
    CHOOSE n \in S : \A m \in S :
        \/ StrLess(Stamp(m), Stamp(n))
        \/ Stamp(m) = Stamp(n) /\ StrLeq(m, n)

\* the most recent snapshot: the maximum collection timestamp, and filename
\* order where the field is missing or is no timestamp
MostRecent ==
    IF Stamped # {} THEN Latest(Stamped)
    ELSE CHOOSE n \in JsonNames : \A m \in JsonNames : StrLeq(m, n)

BothSnapshots == files[Name24].kind = "json" /\ files[Name25].kind = "json"

\* C7 as claimed: given a directory of snapshot files (all of them valid
\* JSON), each loader selects the file of the maximum embedded collection
\* timestamp, falling back to filename order (the lexically last name) where
\* the field is missing or unparsable, and given 2025-10-24.json and
\* 2025-10-25.json it selects the latter.
C7_SelectsMaximumTimestamp ==
    (selected # <<>> /\ \A n \in JsonNames : files[n].kind = "json") =>
        /\ selected = MostRecent
        /\ BothSnapshots => selected = Name25

\* C7 as amended: latest_snapshot (report tool) selects the file whose
\* collected_at string is greatest in string order, a file that does not
\* parse or has no collected_at counting as "", and the lexically last name
\* among equals; find_latest_snapshot (summary tool) selects the lexically
\* last name whatever the files hold.  Given parseable 2025-10-24.json and
\* 2025-10-25.json the summary tool selects the latter, and the report tool
\* selects it unless the collected_at of the former is the greater string.
C7_SelectsByKeyOrByName ==
    selected # <<>> =>
        /\ selected \in JsonNames
        /\ tool = "report" =>
            \A n \in JsonNames :
                \/ StrLess(Stamp(n), Stamp(selected))
                \/ Stamp(n) = Stamp(selected) /\ StrLeq(n, selected)
        /\ tool = "summary" => \A n \in JsonNames : StrLeq(n, selected)
        /\ BothSnapshots =>
            /\ tool = "summary" => selected = Name25
            /\ tool = "report" =>
                (selected = Name25 <=> ~StrLess(Stamp(Name25), Stamp(Name24)))

\* the report tool has selected 2025-10-24.json although 2025-10-25.json is a
\* valid snapshot, its collected_at being the smaller
C7_Witness ==
    /\ tool = "report"
    /\ BothSnapshots
    /\ Stamp(Name24) = Ts25
    /\ Stamp(Name25) = Ts24
    /\ selected = Name24

\* C8: for each tool, the absence of any snapshot file (empty or missing
\* directory) and an unreadable or invalid snapshot file make the process
\* print an error to standard error and exit with a non-zero status.
C8_ErrorsGoToStderrWithNonZeroStatus ==
    (/\ ~help
     /\ pc = "exited"
     /\ \/ JsonNames = {}
        \/ selected # <<>> /\ files[selected].kind \in {"unreadable", "malformed"})
    => (err # <<>> /\ exit_code # 0)

\* C9: in a run of the report tool in which there is no snapshot file or a
\* malformed JSON file is parsed, REPORT.md is neither created nor modified;
\* REPORT.md is written only after loading and compute() have completed.
C9_NoReportAfterAnyParseError ==
    (tool = "report" /\ files[ReportName].kind = "report") =>
        /\ d # <<>>
        /\ Computed
        /\ JsonNames # {}
        /\ \A n \in swallowed : files[n].kind # "malformed"

\* C10: with any subset of the optional fields missing, compute() returns: the
\* four totals are the snapshot's when present and 0 when absent, a missing
\* per-day list contributes no dates, missing referrers and paths are empty
\* lists.
C10_MissingFieldsDegrade ==
    (tool = "report" /\ d # <<>> /\ pc # "compute") =>
        /\ Computed
        /\ stats[1].v_total = InputTotal("views", "count")
        /\ stats[1].v_unique = InputTotal("views", "uniques")
        /\ stats[1].c_total = InputTotal("clones", "count")
        /\ stats[1].c_unique = InputTotal("clones", "uniques")
        /\ {stats[1].days[i] : i \in DOMAIN stats[1].days} = TrackedDates
        /\ stats[1].referrers =
            (IF "referrers" \in DOMAIN d[1] THEN d[1].referrers ELSE <<>>)
        /\ stats[1].paths = (IF "paths" \in DOMAIN d[1] THEN d[1].paths ELSE <<>>)

\* compute() has returned for a snapshot without views, without referrers and
\* without clones.count and clones.clones, but with clones.uniques
C10_Witness ==
    /\ Computed
    /\ "views" \notin DOMAIN d[1]
    /\ "referrers" \notin DOMAIN d[1]
    /\ "paths" \in DOMAIN d[1]
    /\ "clones" \in DOMAIN d[1]
    /\ DOMAIN d[1].clones = {"uniques"}
    /\ stats[1].c_unique = 2
    /\ stats[1].c_total = 0
    /\ stats[1].days = <<>>
====
